---- MODULE Spec2Model ----
(***************************************************************************)
(* Model of the similarity retriever of the question-similarity checker:   *)
(*   src/question similarity checker/utils/similarity.py  find_similar     *)
(*                                                                         *)
(*   sims        = cosine_similarity(query_vec, embeddings).flatten()      *)
(*   top_indices = sims.argsort()[-top_n:][::-1]                           *)
(*   results     = [(corpus[idx], sims[idx]) for idx in top_indices]       *)
(*                                                                         *)
(* Sequences are 1-based here: position i of a sequence is Python index    *)
(* i-1.  The order of positions is the order of the Python indices.        *)
(* Scores are kept exact (sign and reduced square of the cosine), so two   *)
(* scores are equal as values exactly when the cosines are equal.          *)
(***************************************************************************)
EXTENDS Integers, Sequences, FiniteSets, TLC

\* ---------------------------------------------------------------- bounds
\* Largest number of rows of the embedding matrix.
MaxN == 3
\* top_n ranges over -MaxNeg .. MaxN+1 (negative, zero, inside, beyond N).
MaxNeg == 1

\* Embedding vectors of the matrix (dimension 2): the zero vector, two
\* parallel vectors of different length, and vectors at other angles.
RowPalette == { <<0, 0>>, <<1, 0>>, <<1, 1>>, <<2, 2>>, <<-1, 1>> }
\* Query vectors: the palette, and vectors of another dimension.
QueryPalette == RowPalette \cup { <<1>>, <<1, 0, 1>> }

TopNs == (0 - MaxNeg) .. (MaxN + 1)

VARIABLES query_vec, embeddings, corpus, top_n, pc, sims, top_indices, results, error

\* calls: the find_similar calls running at once on the shared embeddings and
\* corpus, one record of arguments, position and locals per thread.
VARIABLES calls

\* The meeting dashboard: the Meeting and ActionItem tables as committed, and
\* the answer to the last request.
VARIABLES meeting_tbl, action_item_tbl, response

\* Registration: the User table as committed, and the registration requests
\* being handled, each with its form and its position in the route.
VARIABLES user_tbl, reg

\* Upload: the files in the upload folder, and the upload request last handled.
VARIABLES upload_folder, up

\* Uploads running at once: the content of each file in the upload folder, and
\* the upload requests being handled, each with its file and its position.
VARIABLES files, uploads

\* process_meeting_link: the request being handled and its position.
VARIABLES zoom_req

\* A ZoomMeetingHandler: its fields, and the last call made on it with what
\* it returned.
VARIABLES handler, zcall

\* ActionAgent._parse_due_date: its argument, position and return value.
VARIABLES due

\* The chat loop of the question similarity checker: its position, the input
\* read, and the lookups made for it.
VARIABLES chat

simVars == <<query_vec, embeddings, corpus, top_n, pc, sims, top_indices, results, error>>

dashVars == <<meeting_tbl, action_item_tbl, response>>

regVars == <<user_tbl, reg>>

upVars == <<upload_folder, up>>

upConcVars == <<files, uploads>>

zoomVars == <<handler, zcall>>

vars == <<simVars, calls, dashVars, regVars, upVars, upConcVars, zoom_req, zoomVars, due, chat>>

\* the parts of the repository modelled after the upload route
lateVars == <<upConcVars, zoom_req, zoomVars, due, chat>>

\* what each part of the repository leaves alone
notSim == <<calls, dashVars, regVars, upVars, lateVars>>
notConc == <<query_vec, top_n, pc, sims, top_indices, results, error, dashVars, regVars, upVars,
             lateVars>>
notDash == <<simVars, calls, regVars, upVars, lateVars>>
notReg == <<simVars, calls, dashVars, upVars, lateVars>>
notUp == <<simVars, calls, response, regVars, lateVars>>
notUpConc == <<simVars, calls, response, regVars, upVars, zoom_req, zoomVars, due, chat>>
notZoomLink == <<simVars, calls, regVars, upVars, upConcVars, zoomVars, due, chat>>
notZoom == <<simVars, calls, dashVars, regVars, upVars, upConcVars, zoom_req, due, chat>>
notDue == <<simVars, calls, dashVars, regVars, upVars, upConcVars, zoom_req, zoomVars, chat>>
notChat == <<simVars, calls, dashVars, regVars, upVars, upConcVars, zoom_req, zoomVars, due>>

\* no concurrent upload is under way
UpConcIdle ==
    /\ files = <<>>
    /\ uploads = <<>>

\* no meeting link is being processed
ZoomLinkIdle == zoom_req = <<>>

\* no ZoomMeetingHandler exists
ZoomIdle ==
    /\ handler = <<>>
    /\ zcall = <<>>

\* _parse_due_date is not called
DueIdle == due = <<>>

\* the chat loop is not running
ChatIdle == chat = <<>>

LateIdle ==
    /\ UpConcIdle
    /\ ZoomLinkIdle
    /\ ZoomIdle
    /\ DueIdle
    /\ ChatIdle

\* no registration is under way
RegIdle ==
    /\ user_tbl = <<>>
    /\ reg = <<>>

\* a file name is its stem and its extension; NoFile: the request has no file
NoFile == [stem |-> "", ext |-> ""]

NoUpload == [outcome |-> "none", saved_file |-> NoFile, meeting_id |-> 0, items_data |-> <<>>]

\* no upload has been handled
UpIdle ==
    /\ upload_folder = {}
    /\ up = NoUpload

\* no meeting is rendered in the response
NoMeeting ==
    [user_id |-> "none", meeting_link |-> "", transcript |-> "", summary |-> "",
     transcript_source |-> ""]

NoResponse ==
    [route |-> "none", user |-> "none", target |-> 0, code |-> 0, body |-> "none",
     meeting |-> NoMeeting, listed |-> {}]

\* the dashboard is not running
DashIdle ==
    /\ meeting_tbl = <<>>
    /\ action_item_tbl = <<>>
    /\ response = NoResponse

\* no concurrent calls are under way
ConcIdle == calls = <<>>

\* no single call is under way (the arguments are those of the threads)
SimIdle ==
    /\ query_vec = <<>>
    /\ top_n = 0
    /\ pc = "idle"
    /\ sims = <<>>
    /\ top_indices = <<>>
    /\ results = <<>>
    /\ error = "none"

\* ------------------------------------------------------------ arithmetic
Min(a, b) == IF a < b THEN a ELSE b
Max(a, b) == IF a > b THEN a ELSE b

RECURSIVE GCD(_, _)
GCD(a, b) == IF b = 0 THEN a ELSE GCD(b, a % b)

RECURSIVE DotUpTo(_, _, _)
DotUpTo(a, b, n) == IF n = 0 THEN 0 ELSE a[n] * b[n] + DotUpTo(a, b, n - 1)

\* dot product of two vectors; it is only taken of vectors of one dimension
Dot(a, b) == DotUpTo(a, b, Min(Len(a), Len(b)))

\* ---------------------------------------------------------------- scores
\* A score is the value sgn * sqrt(num / den), num/den in lowest terms.
ZeroScore == [sgn |-> 0, num |-> 0, den |-> 1]
OneScore == [sgn |-> 1, num |-> 1, den |-> 1]
\* 0/0: what a division by a zero magnitude would give
NaNScore == [sgn |-> 0, num |-> 0, den |-> 0]

IsDefined(s) == s.den > 0

\* a < b on scores; every comparison with an undefined score is false
ScoreLess(a, b) ==
    /\ IsDefined(a)
    /\ IsDefined(b)
    /\ a.sgn * a.num * b.den < b.sgn * b.num * a.den

ScoreGeq(a, b) == IsDefined(a) /\ IsDefined(b) /\ ~ScoreLess(a, b)

\* Cosine without the zero-magnitude guard of normalize().
CosineScoreNaN(q, r) ==
    LET d == Dot(q, r)
        n == Dot(q, q) * Dot(r, r)
    IN  IF n = 0 THEN NaNScore
        ELSE IF d = 0 THEN ZeroScore
        ELSE LET g == GCD(d * d, n)
             IN  [sgn |-> IF d > 0 THEN 1 ELSE -1, num |-> (d * d) \div g, den |-> n \div g]

\* Dot product of the raw vectors, without normalisation.
CosineScoreRawDot(q, r) ==
    LET d == Dot(q, r)
    IN  IF d = 0 THEN ZeroScore
        ELSE [sgn |-> IF d > 0 THEN 1 ELSE -1, num |-> d * d, den |-> 1]

\* sklearn cosine_similarity of one pair: both vectors are L2-normalised,
\* a zero norm being replaced by 1 (the vector stays zero), then multiplied.
CosineScore(q, r) ==
    LET d == Dot(q, r)
        n == Dot(q, q) * Dot(r, r)
    IN  IF n = 0 THEN ZeroScore
        ELSE IF d = 0 THEN ZeroScore
        ELSE LET g == GCD(d * d, n)
             IN  [sgn |-> IF d > 0 THEN 1 ELSE -1, num |-> (d * d) \div g, den |-> n \div g]

\* No shape check at all.
check_pairwise_arrays_nocheck(q, m) == "ok"

\* The validation cosine_similarity runs first (check_pairwise_arrays):
\* the matrix needs at least one row, and both sides the same column count.
check_pairwise_arrays(q, m) ==
    IF Len(m) = 0 THEN "ValueError: 0 samples"
    ELSE IF Len(q) = 0 \/ Len(m[1]) = 0 THEN "ValueError: 0 features"
    ELSE IF Len(q) # Len(m[1]) THEN "ValueError: incompatible dimension"
    ELSE "ok"

\* cosine_similarity(query_vec, embeddings).flatten(): one score per row
cosine_similarity(q, m) == [i \in 1 .. Len(m) |-> CosineScore(q, m[i])]

\* ---------------------------------------------------------------- ranking
Perms(n) == { p \in [1 .. n -> 1 .. n] : \A i, j \in 1 .. n : p[i] = p[j] => i = j }

\* Any order of the indices, sorted or not.
argsort_unsorted(s) == Perms(Len(s))

\* sims.argsort(): the indices in ascending order of score.  The default
\* kind is not stable, so the order among equal scores is any order.
argsort(s) ==
    { p \in Perms(Len(s)) : \A i, j \in 1 .. Len(s) : i < j => ~ScoreLess(s[p[j]], s[p[i]]) }

\* seq[start:] with an off-by-one start.
PySliceFromShort(seq, start) ==
    LET n == Len(seq)
        lo == IF start < 0 THEN Max(n + start + 1, 0) ELSE Min(start, n)
    IN  [i \in 1 .. (n - lo) |-> seq[lo + i]]

\* seq[start:] with a start before the front wrapping round, not clamped.
PySliceFromWrap(seq, start) ==
    LET n == Len(seq)
        lo == IF start < 0 THEN (IF n = 0 THEN 0 ELSE (n + start) % n) ELSE Min(start, n)
    IN  [i \in 1 .. (n - lo) |-> seq[lo + i]]

\* Python seq[start:]: a negative start counts from the end, clamped at 0;
\* a start of 0 or more counts from the front, clamped at the length.
PySliceFrom(seq, start) ==
    LET n == Len(seq)
        lo == IF start < 0 THEN Max(n + start, 0) ELSE Min(start, n)
    IN  [i \in 1 .. (n - lo) |-> seq[lo + i]]

\* The slice left in ascending order.
PyReverseNot(seq) == seq

\* Python seq[::-1]
PyReverse(seq) == [i \in 1 .. Len(seq) |-> seq[Len(seq) + 1 - i]]

\* order[-top_n:][::-1]
TopIndices(order, n) == PyReverse(PySliceFrom(order, 0 - n))

\* Each pair takes its score from the position in the result, not from idx.
ResultPairsByPosition(ti, c, s) ==
    [k \in 1 .. Len(ti) |-> [text |-> c[ti[k]], score |-> s[k]]]

\* [(corpus[idx], sims[idx]) for idx in top_indices]
ResultPairs(ti, c, s) ==
    [k \in 1 .. Len(ti) |-> [text |-> c[ti[k]], score |-> s[ti[k]]]]

\* a vector divided by the greatest common divisor of its components
Scaled(v) ==
    LET g == GCD(IF v[1] < 0 THEN 0 - v[1] ELSE v[1], IF v[2] < 0 THEN 0 - v[2] ELSE v[2])
    IN  IF Len(v) # 2 \/ g = 0 THEN v ELSE [i \in 1 .. 2 |-> v[i] \div g]

\* The rows rescaled in the caller's arrays.
ArraysAfterCosineInPlace(q, m) == <<q, [i \in 1 .. Len(m) |-> Scaled(m[i])]>>

\* The caller's arrays after cosine_similarity(query_vec, embeddings): the
\* routine normalises copies, and argsort, the slices and the comprehension
\* build new objects, so both arrays are as they were.
ArraysAfterCosine(q, m) == <<q, m>>

\* ------------------------------------------------------------------ state
Matrices == UNION { [1 .. n -> RowPalette] : n \in 0 .. MaxN }

\* corpus texts: the text at position i is identified by i
CorpusOfLen(n) == [i \in 1 .. n |-> i]

Init ==
    /\ embeddings \in Matrices
    /\ query_vec \in QueryPalette
    /\ top_n \in TopNs
    /\ \E len \in { Len(embeddings) - 1, Len(embeddings), Len(embeddings) + 1 } :
          /\ len >= 0
          /\ corpus = CorpusOfLen(len)
    /\ pc = "ready"
    /\ sims = <<>>
    /\ top_indices = <<>>
    /\ results = <<>>
    /\ error = "none"
    /\ ConcIdle
    /\ DashIdle
    /\ RegIdle
    /\ UpIdle
    /\ LateIdle

\* One call of find_similar, from entry to return or raise.
find_similar ==
    /\ pc = "ready"
    /\ LET chk == check_pairwise_arrays(query_vec, embeddings)
       IN  IF chk # "ok"
           THEN /\ pc' = "raised"
                /\ error' = chk
                /\ UNCHANGED <<sims, top_indices, results>>
           ELSE LET s == cosine_similarity(query_vec, embeddings)
                IN  \E order \in argsort(s) :
                       LET ti == TopIndices(order, top_n)
                       IN  /\ sims' = s
                           /\ top_indices' = ti
                           /\ IF \E i \in 1 .. Len(ti) : ti[i] > Len(corpus)
                              THEN /\ pc' = "raised"
                                   /\ error' = "IndexError"
                                   /\ UNCHANGED results
                              ELSE /\ pc' = "returned"
                                   /\ error' = "none"
                                   /\ results' = ResultPairs(ti, corpus, s)
    /\ query_vec' = ArraysAfterCosine(query_vec, embeddings)[1]
    /\ embeddings' = ArraysAfterCosine(query_vec, embeddings)[2]
    /\ UNCHANGED <<corpus, top_n>>
    /\ UNCHANGED notSim

Next == find_similar

Spec == Init /\ [][Next]_vars

\* --------------------------------------------- concurrent find_similar calls
\* Two threads call find_similar on one embedding matrix and one corpus.  A
\* thread runs the three statements of the function one at a time; between
\* them the other thread may run.
Threads == {"t1", "t2"}

ConcMatrices == UNION { [1 .. n -> RowPalette] : n \in 1 .. 2 }
ConcQueries == { <<1, 0>>, <<2, 2>>, <<1>> }
ConcTopNs == {0, 1, 2}

\* every outcome find_similar(q, m, c, n) has when it runs alone
FindSimilarOutcomes(q, m, c, n) ==
    IF check_pairwise_arrays(q, m) # "ok"
    THEN { [pc |-> "raised", error |-> check_pairwise_arrays(q, m), results |-> <<>>] }
    ELSE LET s == cosine_similarity(q, m)
         IN  { LET ti == TopIndices(order, n)
               IN  IF \E i \in 1 .. Len(ti) : ti[i] > Len(c)
                   THEN [pc |-> "raised", error |-> "IndexError", results |-> <<>>]
                   ELSE [pc |-> "returned", error |-> "none", results |-> ResultPairs(ti, c, s)]
               : order \in argsort(s) }

ConcInit ==
    /\ embeddings \in ConcMatrices
    /\ \E len \in { Len(embeddings) - 1, Len(embeddings) } : corpus = CorpusOfLen(len)
    /\ calls \in [Threads -> { [query_vec |-> q, top_n |-> n, pc |-> "line6", sims |-> <<>>,
                                 top_indices |-> <<>>, results |-> <<>>, error |-> "none"]
                               : q \in ConcQueries, n \in ConcTopNs }]
    /\ SimIdle
    /\ DashIdle
    /\ RegIdle
    /\ UpIdle
    /\ LateIdle

\* sims = cosine_similarity(query_vec, embeddings).flatten()
Line6(t) ==
    /\ calls[t].pc = "line6"
    /\ LET chk == check_pairwise_arrays(calls[t].query_vec, embeddings)
       IN  IF chk # "ok"
           THEN calls' = [calls EXCEPT ![t].pc = "raised", ![t].error = chk]
           ELSE calls' = [calls EXCEPT ![t].pc = "line7",
                                       ![t].sims = cosine_similarity(calls[t].query_vec, embeddings)]
    /\ embeddings' = ArraysAfterCosine(calls[t].query_vec, embeddings)[2]
    /\ UNCHANGED corpus
    /\ UNCHANGED notConc

\* top_indices = sims.argsort()[-top_n:][::-1]
Line7(t) ==
    /\ calls[t].pc = "line7"
    /\ \E order \in argsort(calls[t].sims) :
          calls' = [calls EXCEPT ![t].pc = "line8",
                                 ![t].top_indices = TopIndices(order, calls[t].top_n)]
    /\ UNCHANGED <<embeddings, corpus>>
    /\ UNCHANGED notConc

\* results = [(corpus[idx], sims[idx]) for idx in top_indices]; return results
Line8(t) ==
    /\ calls[t].pc = "line8"
    /\ LET ti == calls[t].top_indices
       IN  IF \E i \in 1 .. Len(ti) : ti[i] > Len(corpus)
           THEN calls' = [calls EXCEPT ![t].pc = "raised", ![t].error = "IndexError"]
           ELSE calls' = [calls EXCEPT ![t].pc = "returned",
                                       ![t].results = ResultPairs(ti, corpus, calls[t].sims)]
    /\ UNCHANGED <<embeddings, corpus>>
    /\ UNCHANGED notConc

ConcNext == \E t \in Threads : Line6(t) \/ Line7(t) \/ Line8(t)

SpecConc == ConcInit /\ [][ConcNext]_vars

\* find_similar is not running, alone or on threads
SimOff ==
    /\ SimIdle
    /\ ConcIdle
    /\ embeddings = <<>>
    /\ corpus = <<>>

\* a due date is year, month, day; NoDate: the item has none
NoDate == [y |-> 0, m |-> 0, d |-> 0]

\* ------------------------------------------------- the meeting dashboard
\* Routes of app.py on the committed tables.  A handler is one step: it runs
\* in one request and one database session, from its query to its response.
Users == {"alice", "bob"}
MeetingIds == {1, 2}
ItemIds == {1, 2}
\* ids a request may name: the rows there may be, and one that never exists
RequestIds == {1, 2, 3}
\* values of datetime.utcnow() a request may see
Times == {1, 2}
\* the statuses a request may carry; "None" is a body without the key
RequestStatuses == {"pending", "in_progress", "completed", "cancelled", "done", "None"}

\* Any status a request carries is taken.
IsValidStatusAny(st) == st # "None"

\* new_status in ['pending', 'in_progress', 'completed', 'cancelled']
IsValidStatus(st) == st \in {"pending", "in_progress", "completed", "cancelled"}

\* The action item is looked up by its id alone.
QueryActionItemAnyUser(items, meetings, id, u) == id \in DOMAIN items

\* ActionItem.query.join(Meeting).filter(ActionItem.id == id,
\*     Meeting.user_id == current_user.id): is there such a row
QueryActionItem(items, meetings, id, u) ==
    /\ id \in DOMAIN items
    /\ items[id].meeting_id \in DOMAIN meetings
    /\ meetings[items[id].meeting_id].user_id = u

\* The meeting is looked up by its id alone.
QueryMeetingAnyUser(meetings, id, u) == id \in DOMAIN meetings

\* Meeting.query.filter_by(id=meeting_id, user_id=current_user.id)
QueryMeeting(meetings, id, u) ==
    /\ id \in DOMAIN meetings
    /\ meetings[id].user_id = u

\* the response: its status code, the status or link it carries (body) and
\* the meeting it renders
Respond(route, u, target, code, body, meeting) ==
    response' = [route |-> route, user |-> u, target |-> target, code |-> code, body |-> body,
                 meeting |-> meeting, listed |-> {}]

DashInit ==
    /\ meeting_tbl = [m \in MeetingIds |->
                        [user_id |-> IF m = 1 THEN "alice" ELSE "bob", meeting_link |-> "",
                         transcript |-> "typed", summary |-> "",
                         transcript_source |-> "upload"]]
    /\ action_item_tbl = <<>>
    /\ response = NoResponse
    /\ SimOff
    /\ RegIdle
    /\ UpIdle
    /\ LateIdle

\* An action item is stored for a meeting (the upload routes): the status
\* column takes its default, 'pending'.
ActionItemCreated(m, t) ==
    /\ Len(action_item_tbl) < Cardinality(ItemIds)
    /\ action_item_tbl' = Append(action_item_tbl,
                                 [meeting_id |-> m, status |-> "pending", updated_at |-> t,
                                  due_date |-> NoDate])
    /\ UNCHANGED <<meeting_tbl, response>>
    /\ UNCHANGED notDash

\* PUT /api/action_items/<id>/status
update_action_item_status(u, action_item_id, new_status, t, commit_ok) ==
    /\ IF ~QueryActionItem(action_item_tbl, meeting_tbl, action_item_id, u)
       THEN /\ Respond("update_action_item_status", u, action_item_id, 404, new_status, NoMeeting)
            /\ UNCHANGED action_item_tbl
       ELSE IF IsValidStatus(new_status)
       THEN IF commit_ok
            THEN /\ action_item_tbl' = [action_item_tbl EXCEPT ![action_item_id].status = new_status,
                                                               ![action_item_id].updated_at = t]
                 /\ Respond("update_action_item_status", u, action_item_id, 200, new_status, NoMeeting)
            ELSE /\ UNCHANGED action_item_tbl
                 /\ Respond("update_action_item_status", u, action_item_id, 500, new_status, NoMeeting)
       ELSE /\ UNCHANGED action_item_tbl
            /\ Respond("update_action_item_status", u, action_item_id, 400, new_status, NoMeeting)
    /\ UNCHANGED meeting_tbl
    /\ UNCHANGED notDash

\* GET /meeting/<id>
meeting_detail(u, meeting_id) ==
    /\ IF QueryMeeting(meeting_tbl, meeting_id, u)
       THEN Respond("meeting_detail", u, meeting_id, 200, "none", meeting_tbl[meeting_id])
       ELSE Respond("meeting_detail", u, meeting_id, 404, "none", NoMeeting)
    /\ UNCHANGED <<meeting_tbl, action_item_tbl>>
    /\ UNCHANGED notDash

\* POST /api/google/create_meet_link
create_meet_link(u, meeting_id, event_ok, commit_ok) ==
    /\ IF ~QueryMeeting(meeting_tbl, meeting_id, u)
       THEN /\ Respond("create_meet_link", u, meeting_id, 404, "none", NoMeeting)
            /\ UNCHANGED meeting_tbl
       ELSE IF event_ok /\ commit_ok
       THEN /\ meeting_tbl' = [meeting_tbl EXCEPT ![meeting_id].meeting_link = "meet"]
            /\ Respond("create_meet_link", u, meeting_id, 200, "meet", NoMeeting)
       ELSE /\ UNCHANGED meeting_tbl
            /\ Respond("create_meet_link", u, meeting_id, 500, "none", NoMeeting)
    /\ UNCHANGED action_item_tbl
    /\ UNCHANGED notDash

DashNext ==
    \/ \E m \in MeetingIds, t \in Times : ActionItemCreated(m, t)
    \/ \E u \in Users, id \in RequestIds, st \in RequestStatuses, t \in Times, ok \in BOOLEAN :
          update_action_item_status(u, id, st, t, ok)
    \/ \E u \in Users, id \in RequestIds : meeting_detail(u, id)
    \/ \E u \in Users, id \in RequestIds, ev \in BOOLEAN, ok \in BOOLEAN :
          create_meet_link(u, id, ev, ok)

SpecDash == DashInit /\ [][DashNext]_vars

\* ------------------------------------------------------------ registration
\* POST /register.  Requests are handled at once by separate workers, each in
\* its own database session: the two existence queries and the commit of one
\* request are separate steps, and steps of another request may fall between.
Reqs == {"r1", "r2"}
Usernames == {"ann", "ben"}
Emails == {"a@x", "b@x"}
\* Most rows the User table is let to hold.
MaxUsers == 3

\* The table takes any row.
UniqueOkNone(tbl, row) == TRUE

\* The UNIQUE constraints of User.username and User.email: may row go in
UniqueOk(tbl, row) ==
    \A i \in DOMAIN tbl : tbl[i].username # row.username /\ tbl[i].email # row.email

RegInit ==
    /\ user_tbl = <<>>
    /\ reg = [r \in Reqs |-> [pc |-> "idle", username |-> "none", email |-> "none",
                              outcome |-> "none"]]
    /\ SimOff
    /\ DashIdle
    /\ UpIdle
    /\ LateIdle

\* a POST arrives with its form
RegisterPost(r, name, mail) ==
    /\ reg[r].pc \in {"idle", "done"}
    /\ reg' = [reg EXCEPT ![r] = [pc |-> "check_username", username |-> name, email |-> mail,
                                  outcome |-> "none"]]
    /\ UNCHANGED user_tbl
    /\ UNCHANGED notReg

\* if User.query.filter_by(username=username).first(): 'Username already exists'
RegisterCheckUsername(r) ==
    /\ reg[r].pc = "check_username"
    /\ IF \E i \in DOMAIN user_tbl : user_tbl[i].username = reg[r].username
       THEN reg' = [reg EXCEPT ![r].pc = "done", ![r].outcome = "username_exists"]
       ELSE reg' = [reg EXCEPT ![r].pc = "check_email"]
    /\ UNCHANGED user_tbl
    /\ UNCHANGED notReg

\* if User.query.filter_by(email=email).first(): 'Email already registered'
RegisterCheckEmail(r) ==
    /\ reg[r].pc = "check_email"
    /\ IF \E i \in DOMAIN user_tbl : user_tbl[i].email = reg[r].email
       THEN reg' = [reg EXCEPT ![r].pc = "done", ![r].outcome = "email_exists"]
       ELSE reg' = [reg EXCEPT ![r].pc = "commit"]
    /\ UNCHANGED user_tbl
    /\ UNCHANGED notReg

\* db.session.add(user); db.session.commit(), or on any exception
\* db.session.rollback() and 'Registration failed'
RegisterCommit(r, db_ok) ==
    /\ reg[r].pc = "commit"
    /\ LET row == [username |-> reg[r].username, email |-> reg[r].email]
       IN  IF db_ok /\ UniqueOk(user_tbl, row) /\ Len(user_tbl) < MaxUsers
           THEN /\ user_tbl' = Append(user_tbl, row)
                /\ reg' = [reg EXCEPT ![r].pc = "done", ![r].outcome = "registered"]
           ELSE /\ UNCHANGED user_tbl
                /\ reg' = [reg EXCEPT ![r].pc = "done", ![r].outcome = "failed"]
    /\ UNCHANGED notReg

RegNext ==
    \E r \in Reqs :
        \/ \E name \in Usernames, mail \in Emails : RegisterPost(r, name, mail)
        \/ RegisterCheckUsername(r)
        \/ RegisterCheckEmail(r)
        \/ \E db_ok \in BOOLEAN : RegisterCommit(r, db_ok)

SpecReg == RegInit /\ [][RegNext]_vars

\* ------------------------------------------------------------------ upload
\* POST /upload, one request from its form to its response.
\* Most meetings the Meeting table is let to hold.
MaxMeetings == 2

UploadFiles == { [stem |-> "notes", ext |-> "pdf"], [stem |-> "notes", ext |-> "exe"] }
\* what parse_transcript_file does with the saved file: raise, or return text
ParseResults == {"raise", "", "filed"}
FormTexts == {"", "typed"}
\* due dates as _parse_due_date hands them on: none, a date, and a string of
\* the YYYY-MM-DD shape that names no day of the calendar
DueDates == { NoDate, [y |-> 2024, m |-> 5, d |-> 1], [y |-> 2024, m |-> 13, d |-> 45] }
ItemsData == UNION { [1 .. n -> DueDates] : n \in 0 .. 2 }

\* allowed_file: the extension is one of txt, pdf, docx, md
allowed_file(f) == f.ext \in {"txt", "pdf", "docx", "md"}

DaysInMonth(y, m) ==
    IF m \in {4, 6, 9, 11} THEN 30
    ELSE IF m = 2 THEN (IF (y % 4 = 0 /\ y % 100 # 0) \/ y % 400 = 0 THEN 29 ELSE 28)
    ELSE 31

\* datetime.fromisoformat(item_data['due_date']) returns (does not raise)
fromisoformat_ok(date) ==
    /\ date.y \in 1 .. 9999
    /\ date.m \in 1 .. 12
    /\ date.d \in 1 .. DaysInMonth(date.y, date.m)

\* The except block keeps what the session held.
SessionRollbackKeeps(db, pending) == pending

\* db.session.rollback(): what the session held since the last commit is
\* discarded, the tables are as committed
SessionRollback(db, pending) == db

\* db.session.commit(): what the session holds becomes the tables
SessionCommit(db, pending) == pending

\* position of the first item whose due date fromisoformat rejects, or 0
RECURSIVE FirstBad(_, _)
FirstBad(items_data, k) ==
    IF k > Len(items_data) THEN 0
    ELSE IF items_data[k] # NoDate /\ ~fromisoformat_ok(items_data[k]) THEN k
    ELSE FirstBad(items_data, k + 1)

\* The try block after the meeting is committed: the summary is set, an
\* ActionItem is added per extracted item until one raises, then commit; on
\* any exception rollback.
ProcessWithAI(db, meeting_id, items_data, commit_ok) ==
    LET bad == FirstBad(items_data, 1)
        added == IF bad = 0 THEN Len(items_data) ELSE bad - 1
        pending ==
            [meetings |-> [db.meetings EXCEPT ![meeting_id].summary = "summary"],
             items |-> db.items \o [k \in 1 .. added |->
                                      [meeting_id |-> meeting_id, status |-> "pending",
                                       updated_at |-> 1, due_date |-> items_data[k]]]]
    IN  IF bad # 0 \/ ~commit_ok
        THEN [db |-> SessionRollback(db, pending), outcome |-> "ai_error"]
        ELSE [db |-> SessionCommit(db, pending), outcome |-> "processed"]

UpInit ==
    /\ meeting_tbl = <<>>
    /\ action_item_tbl = <<>>
    /\ upload_folder = {}
    /\ up = NoUpload
    /\ response = NoResponse
    /\ SimOff
    /\ RegIdle
    /\ LateIdle

upload(file, parsed, form_text, items_data, commit_meeting_ok, commit_ai_ok) ==
    /\ Len(meeting_tbl) < MaxMeetings
    /\ LET saved == file # NoFile /\ allowed_file(file)
       IN  IF saved /\ parsed = "raise"
           THEN \* the exception leaves the route before os.remove
                /\ upload_folder' = upload_folder \cup {file}
                /\ up' = [outcome |-> "parse_error", saved_file |-> file, meeting_id |-> 0,
                          items_data |-> <<>>]
                /\ UNCHANGED <<meeting_tbl, action_item_tbl>>
           ELSE LET transcript_text == IF saved THEN parsed ELSE form_text
                    saved_file == IF saved THEN file ELSE NoFile
                IN  /\ upload_folder' = IF saved THEN upload_folder \ {file} ELSE upload_folder
                    /\ IF transcript_text = ""
                       THEN /\ up' = [outcome |-> "no_transcript", saved_file |-> saved_file,
                                      meeting_id |-> 0, items_data |-> <<>>]
                            /\ UNCHANGED <<meeting_tbl, action_item_tbl>>
                       ELSE IF ~commit_meeting_ok
                       THEN /\ up' = [outcome |-> "save_error", saved_file |-> saved_file,
                                      meeting_id |-> 0, items_data |-> <<>>]
                            /\ UNCHANGED <<meeting_tbl, action_item_tbl>>
                       ELSE LET meeting_id == Len(meeting_tbl) + 1
                                db == [meetings |-> Append(meeting_tbl,
                                                           [user_id |-> "alice", meeting_link |-> "",
                                                            transcript |-> transcript_text,
                                                            summary |-> "",
                                                            transcript_source |-> "upload"]),
                                       items |-> action_item_tbl]
                                ai == ProcessWithAI(db, meeting_id, items_data, commit_ai_ok)
                            IN  /\ meeting_tbl' = ai.db.meetings
                                /\ action_item_tbl' = ai.db.items
                                /\ up' = [outcome |-> ai.outcome, saved_file |-> saved_file,
                                          meeting_id |-> meeting_id, items_data |-> items_data]
    /\ UNCHANGED notUp

UpNext ==
    \E file \in UploadFiles \cup {NoFile}, parsed \in ParseResults, form_text \in FormTexts,
       items_data \in ItemsData, ok1 \in BOOLEAN, ok2 \in BOOLEAN :
        upload(file, parsed, form_text, items_data, ok1, ok2)

SpecUpload == UpInit /\ [][UpNext]_vars

\* ------------------------------------------------------ uploads at once
\* POST /upload handled for two requests at once (the development server is
\* threaded, gunicorn runs several workers on one upload folder): the route
\* from file.save to the meeting's commit, a step per statement on the file.
UpReqs == {"u1", "u2"}

ConcFileNames == { [stem |-> "notes", ext |-> "txt"], [stem |-> "agenda", ext |-> "txt"] }

\* the content of the file each request uploads
UploadedContent == [r \in UpReqs |-> IF r = "u1" THEN "minutes A" ELSE "minutes B"]

\* what extract_action_items hands on for the transcript
ConcItemsData == { <<>>, << [y |-> 2024, m |-> 5, d |-> 1] >> }

\* file.save(filepath): the file at that path now has this content
FileWrite(fs, f, content) == [n \in DOMAIN fs \cup {f} |-> IF n = f THEN content ELSE fs[n]]

\* os.remove(filepath)
FileRemove(fs, f) == [n \in DOMAIN fs \ {f} |-> fs[n]]

UpConcInit ==
    /\ files = <<>>
    /\ \E user \in [UpReqs -> Users], file \in [UpReqs -> ConcFileNames] :
          uploads = [r \in UpReqs |->
                       [pc |-> "start", user |-> user[r], file |-> file[r],
                        content |-> UploadedContent[r], transcript_text |-> "",
                        meeting_id |-> 0, error |-> "none"]]
    /\ meeting_tbl = <<>>
    /\ action_item_tbl = <<>>
    /\ response = NoResponse
    /\ SimOff
    /\ RegIdle
    /\ UpIdle
    /\ ZoomLinkIdle
    /\ ZoomIdle
    /\ DueIdle
    /\ ChatIdle

\* file.save(filepath)
UploadSave(r) ==
    /\ uploads[r].pc = "start"
    /\ allowed_file(uploads[r].file)
    /\ files' = FileWrite(files, uploads[r].file, uploads[r].content)
    /\ uploads' = [uploads EXCEPT ![r].pc = "saved"]
    /\ UNCHANGED <<meeting_tbl, action_item_tbl>>
    /\ UNCHANGED notUpConc

\* transcript_text = parse_transcript_file(filepath)
UploadParse(r) ==
    /\ uploads[r].pc = "saved"
    /\ IF uploads[r].file \in DOMAIN files
       THEN uploads' = [uploads EXCEPT ![r].pc = "parsed",
                                       ![r].transcript_text = files[uploads[r].file]]
       ELSE uploads' = [uploads EXCEPT ![r].pc = "raised", ![r].error = "FileNotFoundError"]
    /\ UNCHANGED <<files, meeting_tbl, action_item_tbl>>
    /\ UNCHANGED notUpConc

\* os.remove(filepath)
UploadRemove(r) ==
    /\ uploads[r].pc = "parsed"
    /\ IF uploads[r].file \in DOMAIN files
       THEN /\ files' = FileRemove(files, uploads[r].file)
            /\ uploads' = [uploads EXCEPT ![r].pc = "removed"]
       ELSE /\ files' = files
            /\ uploads' = [uploads EXCEPT ![r].pc = "raised", ![r].error = "FileNotFoundError"]
    /\ UNCHANGED <<meeting_tbl, action_item_tbl>>
    /\ UNCHANGED notUpConc

\* the rest of the route: the meeting's commit and the AI processing
UploadStore(r, items_data, commit_meeting_ok, commit_ai_ok) ==
    /\ uploads[r].pc = "removed"
    /\ IF ~commit_meeting_ok
       THEN /\ uploads' = [uploads EXCEPT ![r].pc = "done", ![r].error = "save_error"]
            /\ UNCHANGED <<meeting_tbl, action_item_tbl>>
       ELSE LET meeting_id == Len(meeting_tbl) + 1
                db == [meetings |-> Append(meeting_tbl,
                                           [user_id |-> uploads[r].user, meeting_link |-> "",
                                            transcript |-> uploads[r].transcript_text,
                                            summary |-> "", transcript_source |-> "upload"]),
                       items |-> action_item_tbl]
                ai == ProcessWithAI(db, meeting_id, items_data, commit_ai_ok)
            IN  /\ meeting_tbl' = ai.db.meetings
                /\ action_item_tbl' = ai.db.items
                /\ uploads' = [uploads EXCEPT ![r].pc = "done", ![r].meeting_id = meeting_id]
    /\ UNCHANGED files
    /\ UNCHANGED notUpConc

UpConcNext ==
    \E r \in UpReqs :
        \/ UploadSave(r)
        \/ UploadParse(r)
        \/ UploadRemove(r)
        \/ \E items_data \in ConcItemsData, ok1 \in BOOLEAN, ok2 \in BOOLEAN :
              UploadStore(r, items_data, ok1, ok2)

SpecUpConc == UpConcInit /\ [][UpConcNext]_vars

\* ------------------------------------------------------- meeting links
\* POST /api/meetings/process_link and GET /api/meetings/status.
\* A meeting URL is its host, and the meeting id and passcode found in it.
NoUrl == [host |-> "", meeting_id |-> "", pwd |-> ""]

MeetingUrls ==
    { NoUrl,
      [host |-> "zoom.us", meeting_id |-> "123", pwd |-> "abc"],
      [host |-> "zoom.us", meeting_id |-> "", pwd |-> ""],
      [host |-> "teams.live.com", meeting_id |-> "", pwd |-> ""] }

\* .limit(5) of meeting_status
StatusLimit == 5

NoZoomReq == [pc |-> "idle", user |-> "none", url |-> NoUrl, code |-> 0, meeting_id |-> 0]

\* parse_zoom_link finds a meeting id and a passcode
parse_zoom_link_ok(url) == url.host = "zoom.us" /\ url.meeting_id # "" /\ url.pwd # ""

\* process_zoom_meeting: what it can return for the URL. No statement of it
\* assigns result['transcript'], which stays ''.
process_zoom_meeting(url) ==
    IF ~parse_zoom_link_ok(url)
    THEN { [success |-> FALSE, transcript |-> ""] }
    ELSE { [success |-> FALSE, transcript |-> ""], [success |-> TRUE, transcript |-> ""] }

\* the rows meeting_status reads: the user's zoom recordings, the newest
\* StatusLimit of them
RecentZoomMeetings(meetings, u) ==
    LET mine == { i \in DOMAIN meetings :
                    meetings[i].user_id = u /\ meetings[i].transcript_source = "zoom_recording" }
    IN  { i \in mine : Cardinality({ j \in mine : j > i }) < StatusLimit }

\* processing_meetings: those of the rows read that have no summary
ProcessingMeetings(meetings, u) ==
    { i \in RecentZoomMeetings(meetings, u) : meetings[i].summary = "" }

ZoomLinkInit ==
    /\ meeting_tbl = <<>>
    /\ action_item_tbl = <<>>
    /\ response = NoResponse
    /\ zoom_req = NoZoomReq
    /\ SimOff
    /\ RegIdle
    /\ UpIdle
    /\ UpConcIdle
    /\ ZoomIdle
    /\ DueIdle
    /\ ChatIdle

\* process_meeting_link up to its first await, or to its response when it
\* has none
ProcessLinkStart(u, url, commit_ok) ==
    /\ zoom_req.pc # "running"
    /\ Len(meeting_tbl) < MaxMeetings
    /\ IF url = NoUrl
       THEN /\ zoom_req' = [pc |-> "ended", user |-> u, url |-> url, code |-> 400, meeting_id |-> 0]
            /\ UNCHANGED meeting_tbl
       ELSE IF url.host = "zoom.us"
       THEN /\ IF ~parse_zoom_link_ok(url)
               THEN zoom_req' = [pc |-> "ended", user |-> u, url |-> url, code |-> 400,
                                 meeting_id |-> 0]
               ELSE zoom_req' = [pc |-> "running", user |-> u, url |-> url, code |-> 0,
                                 meeting_id |-> 0]
            /\ UNCHANGED meeting_tbl
       ELSE IF commit_ok
       THEN /\ meeting_tbl' = Append(meeting_tbl,
                                     [user_id |-> u, meeting_link |-> "link",
                                      transcript |-> "manual", summary |-> "",
                                      transcript_source |-> "upload"])
            /\ zoom_req' = [pc |-> "ended", user |-> u, url |-> url, code |-> 200,
                            meeting_id |-> Len(meeting_tbl) + 1]
       ELSE /\ zoom_req' = [pc |-> "ended", user |-> u, url |-> url, code |-> 500, meeting_id |-> 0]
            /\ UNCHANGED meeting_tbl
    /\ UNCHANGED <<action_item_tbl, response>>
    /\ UNCHANGED notZoomLink

\* process_meeting_link from the return of process_zoom_meeting to its response
ProcessLinkFinish(result, commit_ok, items_data, commit_ai_ok) ==
    /\ zoom_req.pc = "running"
    /\ result \in process_zoom_meeting(zoom_req.url)
    /\ IF ~result.success \/ ~commit_ok
       THEN /\ zoom_req' = [zoom_req EXCEPT !.pc = "ended", !.code = 500]
            /\ UNCHANGED <<meeting_tbl, action_item_tbl>>
       ELSE LET meeting_id == Len(meeting_tbl) + 1
                db == [meetings |-> Append(meeting_tbl,
                                           [user_id |-> zoom_req.user, meeting_link |-> "link",
                                            transcript |-> result.transcript, summary |-> "",
                                            transcript_source |-> "zoom_recording"]),
                       items |-> action_item_tbl]
                ai == IF result.transcript # ""
                      THEN ProcessWithAI(db, meeting_id, items_data, commit_ai_ok)
                      ELSE [db |-> db, outcome |-> "processed"]
            IN  /\ meeting_tbl' = ai.db.meetings
                /\ action_item_tbl' = ai.db.items
                /\ zoom_req' = [zoom_req EXCEPT !.pc = "ended", !.meeting_id = meeting_id,
                                                !.code = IF ai.outcome = "processed" THEN 200
                                                         ELSE 500]
    /\ UNCHANGED response
    /\ UNCHANGED notZoomLink

meeting_status(u) ==
    /\ response' = [route |-> "meeting_status", user |-> u, target |-> 0, code |-> 200,
                    body |-> "none", meeting |-> NoMeeting,
                    listed |-> ProcessingMeetings(meeting_tbl, u)]
    /\ UNCHANGED <<meeting_tbl, action_item_tbl, zoom_req>>
    /\ UNCHANGED notZoomLink

ZoomLinkNext ==
    \/ \E u \in Users, url \in MeetingUrls, commit_ok \in BOOLEAN : ProcessLinkStart(u, url, commit_ok)
    \/ \E result \in [success : BOOLEAN, transcript : {""}], commit_ok \in BOOLEAN,
          items_data \in ConcItemsData, commit_ai_ok \in BOOLEAN :
            ProcessLinkFinish(result, commit_ok, items_data, commit_ai_ok)
    \/ \E u \in Users : meeting_status(u)

SpecZoomLink == ZoomLinkInit /\ [][ZoomLinkNext]_vars

\* ------------------------------------------------------------- due dates
\* ActionAgent._parse_due_date. Its argument is modelled by what the three
\* patterns find in it, the digits of each match as numbers (NoDate: the
\* pattern does not match), and by the relative phrase it holds.
DatePalette ==
    { [y |-> 2024, m |-> 5, d |-> 1], [y |-> 2024, m |-> 2, d |-> 29],
      [y |-> 2023, m |-> 2, d |-> 29], [y |-> 2024, m |-> 13, d |-> 45],
      [y |-> 2024, m |-> 4, d |-> 31] }

RelativePhrases == {"none", "next week", "next month", "tomorrow"}

\* datetime.now() at the call
Nows == { [y |-> 2024, m |-> 2, d |-> 28], [y |-> 2024, m |-> 12, d |-> 25] }

DateStrs ==
    [ymd : DatePalette \cup {NoDate}, slash : {NoDate, [y |-> 2024, m |-> 5, d |-> 1],
                                               [y |-> 2024, m |-> 45, d |-> 13]},
     dash : {NoDate, [y |-> 2024, m |-> 12, d |-> 31], [y |-> 2024, m |-> 31, d |-> 12]},
     rel : RelativePhrases]

NextDay(date) ==
    IF date.d < DaysInMonth(date.y, date.m) THEN [date EXCEPT !.d = date.d + 1]
    ELSE IF date.m < 12 THEN [y |-> date.y, m |-> date.m + 1, d |-> 1]
    ELSE [y |-> date.y + 1, m |-> 1, d |-> 1]

\* date + timedelta(days=n)
RECURSIVE AddDays(_, _)
AddDays(date, n) == IF n = 0 THEN date ELSE AddDays(NextDay(date), n - 1)

\* the patterns in their order, the first match returned with its digits
\* rearranged and not otherwise examined; then the relative phrases
_parse_due_date(date_str, now) ==
    IF date_str.ymd # NoDate THEN date_str.ymd
    ELSE IF date_str.slash # NoDate THEN date_str.slash
    ELSE IF date_str.dash # NoDate THEN date_str.dash
    ELSE IF date_str.rel = "next week" THEN AddDays(now, 7)
    ELSE IF date_str.rel = "next month" THEN AddDays(now, 30)
    ELSE IF date_str.rel = "tomorrow" THEN AddDays(now, 1)
    ELSE NoDate

DueInit ==
    /\ due \in [pc : {"ready"}, date_str : DateStrs, now : Nows, result : {NoDate}]
    /\ SimOff
    /\ DashIdle
    /\ RegIdle
    /\ UpIdle
    /\ UpConcIdle
    /\ ZoomLinkIdle
    /\ ZoomIdle
    /\ ChatIdle

parse_due_date ==
    /\ due.pc = "ready"
    /\ due' = [due EXCEPT !.pc = "returned", !.result = _parse_due_date(due.date_str, due.now)]
    /\ UNCHANGED notDue

DueNext == parse_due_date

SpecDue == DueInit /\ [][DueNext]_vars

\* ---------------------------------------------------- ZoomMeetingHandler
\* The handlers constructed (one per process_zoom_meeting call) and the calls
\* made on each. driver is TRUE when self.driver is a WebDriver,
\* recording_path "None" when it is None. zcall holds, per handler, the last
\* call, its argument and its return value, and two history fields: started,
\* whether the most recent start_recording returned True with no
\* stop_recording or cleanup having succeeded since, and was_started, its
\* value before the last call.
Handlers == {"h1", "h2"}

OutputPaths == {"a.webm", "b.webm"}

ZoomInit ==
    /\ handler = [h \in Handlers |->
                    [driver |-> FALSE, is_recording |-> FALSE, recording_path |-> "None"]]
    /\ zcall = [h \in Handlers |->
                  [op |-> "__init__", arg |-> "None", ret |-> "None", started |-> FALSE,
                   was_started |-> FALSE]]
    /\ SimOff
    /\ DashIdle
    /\ RegIdle
    /\ UpIdle
    /\ UpConcIdle
    /\ ZoomLinkIdle
    /\ DueIdle
    /\ ChatIdle

\* the call op(arg) on handler h leaves its fields as fields, returns ret and
\* leaves the history as started
Called(h, op, arg, fields, ret, started) ==
    /\ handler' = [handler EXCEPT ![h] = fields]
    /\ zcall' = [zcall EXCEPT ![h] = [op |-> op, arg |-> arg, ret |-> ret, started |-> started,
                                      was_started |-> zcall[h].started]]

\* webdriver.Chrome(...) returns (chrome_ok) or raises
setup_driver(h, chrome_ok) ==
    /\ IF chrome_ok
       THEN Called(h, "setup_driver", "None", [handler[h] EXCEPT !.driver = TRUE], "True",
                   zcall[h].started)
       ELSE Called(h, "setup_driver", "None", handler[h], "False", zcall[h].started)
    /\ UNCHANGED notZoom

\* script_ok: self.driver.execute_script returns rather than raises
start_recording(h, output_path, script_ok) ==
    /\ IF ~handler[h].driver
       THEN Called(h, "start_recording", output_path, handler[h], "False", FALSE)
       ELSE Called(h, "start_recording", output_path,
                   [handler[h] EXCEPT !.is_recording = TRUE, !.recording_path = output_path],
                   IF script_ok THEN "True" ELSE "False", script_ok)
    /\ UNCHANGED notZoom

stop_recording(h, script_ok) ==
    /\ IF ~handler[h].is_recording \/ ~handler[h].driver
       THEN Called(h, "stop_recording", "None", handler[h], "None", zcall[h].started)
       ELSE IF script_ok
       THEN Called(h, "stop_recording", "None", [handler[h] EXCEPT !.is_recording = FALSE],
                   handler[h].recording_path, FALSE)
       ELSE Called(h, "stop_recording", "None", handler[h], "None", zcall[h].started)
    /\ UNCHANGED notZoom

\* quit_ok: self.driver.quit() returns rather than raises
cleanup(h, quit_ok) ==
    /\ IF handler[h].driver /\ ~quit_ok
       THEN Called(h, "cleanup", "None", handler[h], "raised", zcall[h].started)
       ELSE Called(h, "cleanup", "None",
                   [driver |-> FALSE, is_recording |-> FALSE, recording_path |-> "None"],
                   "None", FALSE)
    /\ UNCHANGED notZoom

ZoomNext ==
    \E h \in Handlers :
        \/ \E chrome_ok \in BOOLEAN : setup_driver(h, chrome_ok)
        \/ \E output_path \in OutputPaths, script_ok \in BOOLEAN :
              start_recording(h, output_path, script_ok)
        \/ \E script_ok \in BOOLEAN : stop_recording(h, script_ok)
        \/ \E quit_ok \in BOOLEAN : cleanup(h, quit_ok)

SpecZoom == ZoomInit /\ [][ZoomNext]_vars

\* ------------------------------------------------------------ chat loop
\* main.py of the question similarity checker from "Chatbot is ready" on,
\* for the lines input() returns. A line is the sequence of its characters.
\* chat holds the questions and the two embedding matrices built before the
\* loop, the position in the loop, the line read, and the find_similar calls
\* made for it with what was read from their results.
DefaultTopN == 5

ExitWords == { <<"e", "x", "i", "t">>, <<"q", "u", "i", "t">>, <<"b", "y", "e">> }

ChatInputs ==
    ExitWords \cup
    { <<"E", "X", "I", "T">>, <<"Q", "u", "i", "t">>, <<"e", "x", "i", "t", "s">>,
      <<" ", "e", "x", "i", "t">>, <<"h", "i">>, <<>> }

ChatRows == { <<1, 0>>, <<1, 1>>, <<0, 0>> }

\* one row per question: fit_transform and encode of the same list
ChatMatrices(n) == [1 .. n -> ChatRows]

\* The character is kept as typed.
LowerCharKeep(c) == c

\* str.lower() on one character
LowerChar(c) ==
    CASE c = "E" -> "e" [] c = "X" -> "x" [] c = "I" -> "i" [] c = "T" -> "t"
      [] c = "Q" -> "q" [] c = "U" -> "u" [] c = "B" -> "b" [] c = "Y" -> "y"
      [] OTHER -> c

\* query.lower()
Lower(query) == [i \in 1 .. Len(query) |-> LowerChar(query[i])]

\* results[0] of a find_similar call that returned, or the exception that
\* ends the program
FirstEntry(outcome) ==
    IF outcome.pc = "raised" THEN [pc |-> "crashed", error |-> outcome.error]
    ELSE IF outcome.results = <<>> THEN [pc |-> "crashed", error |-> "IndexError"]
    ELSE [pc |-> "ok", error |-> "none"]

ChatInit ==
    /\ \E n \in 1 .. 2 :
         \E tfidf \in ChatMatrices(n), bert \in ChatMatrices(n) :
            chat = [pc |-> "input", query |-> <<>>, lookups |-> <<>>, error |-> "none",
                    processed_questions |-> CorpusOfLen(n),
                    tfidf_embeddings |-> tfidf, bert_embeddings |-> bert]
    /\ SimOff
    /\ DashIdle
    /\ RegIdle
    /\ UpIdle
    /\ UpConcIdle
    /\ ZoomLinkIdle
    /\ ZoomIdle
    /\ DueIdle

\* query = input("You: "); the exit test
ChatInput(query) ==
    /\ chat.pc = "input"
    /\ chat' = [chat EXCEPT !.query = query, !.lookups = <<>>,
                            !.pc = IF Lower(query) \in ExitWords THEN "ended" ELSE "tfidf"]
    /\ UNCHANGED notChat

\* the lookup with matrix m for the query vector the method gives the line
ChatLookup(method, m, query_vec_m, next_pc) ==
    \E outcome \in FindSimilarOutcomes(query_vec_m, m, chat.processed_questions, DefaultTopN) :
        IF FirstEntry(outcome).pc = "crashed"
        THEN chat' = [chat EXCEPT !.pc = "crashed", !.error = FirstEntry(outcome).error]
        ELSE chat' = [chat EXCEPT !.pc = next_pc,
                                  !.lookups = Append(chat.lookups,
                                                     [method |-> method, rows |-> Len(m),
                                                      results |-> outcome.results,
                                                      top |-> outcome.results[1]])]

\* lines 36-38
ChatTfidf(query_vec_tfidf) ==
    /\ chat.pc = "tfidf"
    /\ ChatLookup("tfidf", chat.tfidf_embeddings, query_vec_tfidf, "bert")
    /\ UNCHANGED notChat

\* lines 41-50, back to input()
ChatBert(query_vec_bert) ==
    /\ chat.pc = "bert"
    /\ ChatLookup("bert", chat.bert_embeddings, query_vec_bert, "input")
    /\ UNCHANGED notChat

ChatNext ==
    \/ \E query \in ChatInputs : ChatInput(query)
    \/ \E query_vec_tfidf \in ChatRows : ChatTfidf(query_vec_tfidf)
    \/ \E query_vec_bert \in ChatRows : ChatBert(query_vec_bert)

SpecChat == ChatInit /\ [][ChatNext]_vars

\* ------------------------------------------------------- shared vocabulary
N == Len(embeddings)

\* the call has ended, by return or by raise
Ended == pc # "ready"

\* the inputs the contract calls valid
ValidCall ==
    /\ top_n >= 1
    /\ N >= 1
    /\ Len(query_vec) = Len(embeddings[1])
    /\ Len(corpus) = N

IsZeroVec(v) == \A i \in 1 .. Len(v) : v[i] = 0

\* the score find_similar is to report for row i: its cosine to the query
SimOf(i) == cosine_similarity(query_vec, embeddings)[i]

\* the corpus indices whose text is in the result
ReturnedIdx == { i \in 1 .. Len(corpus) : \E k \in 1 .. Len(results) : results[k].text = corpus[i] }

NonIncreasing ==
    \A k \in 1 .. (Len(results) - 1) : ScoreGeq(results[k].score, results[k + 1].score)

\* a is a positive scalar multiple of b (identical vectors included)
Parallel(a, b) ==
    /\ Len(a) = Len(b)
    /\ Dot(a, b) > 0
    /\ \A i, j \in 1 .. Len(a) : a[i] * b[j] = a[j] * b[i]

\* ------------------------------------------------------------------ claims

\* C1: for every valid call (top_n >= 1, query dimension equal to the column
\* count, corpus index-aligned with the N >= 1 rows) find_similar returns,
\* and the result has exactly min(top_n, N) pairs.
C1_ResultLength ==
    (ValidCall /\ Ended) => (pc = "returned" /\ Len(results) = Min(top_n, N))

\* C1 witness: a call that cuts (2 of 3 rows) has returned.
C1_Witness ==
    ValidCall /\ pc = "returned" /\ N = 3 /\ top_n = 2 /\ Len(results) = 2

\* C2: for every valid call, every returned corpus index has a cosine
\* similarity to the query greater than or equal to that of every index that
\* is not returned.
C2_TopRanked ==
    (ValidCall /\ Ended) =>
        /\ pc = "returned"
        /\ \A i \in ReturnedIdx : \A j \in (1 .. N) \ ReturnedIdx : ScoreGeq(SimOf(i), SimOf(j))

\* C2 witness: three rows, the first and third more similar to the query than
\* the second, top_n = 2: the result is the first then the third row.
C2_Witness ==
    /\ ValidCall /\ pc = "returned" /\ N = 3 /\ top_n = 2
    /\ ScoreLess(SimOf(2), SimOf(3))
    /\ ScoreLess(SimOf(3), SimOf(1))
    /\ Len(results) = 2
    /\ results[1].text = corpus[1]
    /\ results[2].text = corpus[3]

\* C3: in every result of find_similar the scores are non-increasing from
\* each position to the next.
C3_ScoresNonIncreasing == (pc = "returned") => NonIncreasing

\* C3 witness: a result of three entries with strictly falling scores.
C3_Witness ==
    /\ pc = "returned" /\ Len(results) = 3
    /\ ScoreLess(results[2].score, results[1].score)
    /\ ScoreLess(results[3].score, results[2].score)

\* C4: rows with exactly the same similarity are ordered by ascending
\* original index, and the smaller index is the one kept when top_n cuts
\* between them.
C4_TieAscendingIndex ==
    (ValidCall /\ pc = "returned") =>
        /\ \A k, l \in 1 .. Len(results) :
              (k < l /\ results[k].score = results[l].score) => results[k].text < results[l].text
        /\ \A i \in ReturnedIdx : \A j \in (1 .. N) \ ReturnedIdx :
              SimOf(i) = SimOf(j) => i < j

\* C5 as stated: if the query equals row k exactly and no other row is
\* identical to row k, the first entry is corpus_texts[k] with score 1.0.
C5_SelfSimilarityOriginal ==
    \A k \in 1 .. N :
        ( /\ ValidCall /\ Ended
          /\ query_vec = embeddings[k]
          /\ \A j \in (1 .. N) \ {k} : embeddings[j] # embeddings[k] )
        => ( /\ pc = "returned"
             /\ results[1] = [text |-> corpus[k], score |-> OneScore] )

\* C5 amended: if the query equals row k exactly, row k is not the zero
\* vector and no other row is a positive scalar multiple of row k (identical
\* rows included), the first entry is corpus_texts[k] with score 1.0, for
\* every top_n >= 1.
C5_SelfSimilarity ==
    \A k \in 1 .. N :
        ( /\ ValidCall /\ Ended
          /\ query_vec = embeddings[k]
          /\ ~IsZeroVec(embeddings[k])
          /\ \A j \in (1 .. N) \ {k} : ~Parallel(embeddings[j], embeddings[k]) )
        => ( /\ pc = "returned"
             /\ results[1] = [text |-> corpus[k], score |-> OneScore] )

\* C5 witness: the query is the first of three rows, the other two at other
\* angles, and the first row is on top with score 1.0.
C5_Witness ==
    /\ ValidCall /\ pc = "returned" /\ N = 3
    /\ query_vec = embeddings[1]
    /\ ~IsZeroVec(embeddings[1])
    /\ ~IsZeroVec(embeddings[2])
    /\ ~Parallel(embeddings[2], embeddings[1])
    /\ ~Parallel(embeddings[3], embeddings[1])
    /\ results[1] = [text |-> corpus[1], score |-> OneScore]

\* C6: when top_n is 0 or negative, find_similar fails or returns an empty
\* sequence; it returns no (text, score) pair.
C6_NonPositiveTopN ==
    (top_n <= 0 /\ Ended) => (pc = "raised" \/ (pc = "returned" /\ results = <<>>))

\* C7: with an empty corpus (no rows, no texts) find_similar returns an empty
\* sequence for every top_n and raises no error.
C7_EmptyCorpus ==
    (N = 0 /\ corpus = <<>> /\ Ended) => (pc = "returned" /\ results = <<>>)

\* C8: find_similar fails, and returns no result, whenever the length of
\* corpus_texts differs from the number of matrix rows, shorter or longer.
C8_CorpusLengthMismatch ==
    (Len(corpus) # N /\ Ended) => (pc = "raised" /\ results = <<>>)

\* C9: find_similar fails with a dimension-mismatch error, and returns no
\* result, whenever the query dimension differs from the column count of
\* the matrix.
C9_QueryDimensionMismatch ==
    (N >= 1 /\ Len(query_vec) # Len(embeddings[1]) /\ Ended) =>
        /\ pc = "raised"
        /\ error = "ValueError: incompatible dimension"
        /\ results = <<>>

\* C9 witness: a call whose only defect is the query dimension has raised.
C9_Witness ==
    /\ pc = "raised" /\ N = 2 /\ top_n = 1 /\ Len(corpus) = N
    /\ Len(query_vec) = 3
    /\ Len(embeddings[1]) = 2

\* C10: when the query or a row has zero magnitude, a valid call raises
\* nothing, every affected pair gets the one defined score 0 (never an
\* undefined value), and the result keeps its length and its non-increasing
\* scores.
C10_ZeroMagnitude ==
    ( /\ ValidCall /\ Ended
      /\ (IsZeroVec(query_vec) \/ \E i \in 1 .. N : IsZeroVec(embeddings[i])) )
    => ( /\ pc = "returned"
         /\ \A i \in 1 .. N :
               (IsZeroVec(query_vec) \/ IsZeroVec(embeddings[i])) => sims[i] = ZeroScore
         /\ \A k \in 1 .. Len(results) : IsDefined(results[k].score)
         /\ \A k \in 1 .. Len(results) :
               (IsZeroVec(query_vec) \/ IsZeroVec(embeddings[results[k].text]))
                   => results[k].score = ZeroScore
         /\ Len(results) = Min(top_n, N)
         /\ NonIncreasing )

\* C10 witness: a zero row ranked between a row at a positive and a row at a
\* negative similarity, all three returned.
C10_Witness ==
    /\ ValidCall /\ pc = "returned" /\ N = 3 /\ Len(results) = 3
    /\ ~IsZeroVec(query_vec)
    /\ IsZeroVec(embeddings[results[2].text])
    /\ results[2].score = ZeroScore
    /\ ScoreLess(ZeroScore, results[1].score)
    /\ ScoreLess(results[3].score, ZeroScore)

\* C11: each returned pair joins text and score on one corpus index: for
\* every result entry there is an index i with text = corpus_texts[i] and
\* score = the cosine similarity of the query and row i.
C11_PairsJoinedOnIndex ==
    (pc = "returned") =>
        \A k \in 1 .. Len(results) :
            \E i \in 1 .. Min(N, Len(corpus)) :
                /\ results[k].text = corpus[i]
                /\ results[k].score = SimOf(i)

\* C11 witness: a returned result whose three entries carry three different
\* scores, the top one not from the first or the last row.
C11_Witness ==
    /\ ValidCall /\ pc = "returned" /\ Len(results) = 3
    /\ results[1].text = corpus[2]
    /\ results[1].score # results[2].score
    /\ results[2].score # results[3].score
    /\ results[1].score # results[3].score

\* C12: when top_n exceeds the corpus length N, a valid call returns every
\* corpus index exactly once: N entries, all different, none left out.
C12_TopNBeyondCorpus ==
    (N >= 1 /\ Len(query_vec) = Len(embeddings[1]) /\ Len(corpus) = N /\ top_n > N /\ Ended) =>
        /\ pc = "returned"
        /\ Len(results) = N
        /\ \A i \in 1 .. N : \E k \in 1 .. N : results[k].text = corpus[i]
        /\ \A k, l \in 1 .. N : results[k].text = results[l].text => k = l

\* C12 witness: top_n = 4 on three rows has returned three entries.
C12_Witness ==
    /\ pc = "returned" /\ N = 3 /\ Len(corpus) = 3 /\ top_n = 4 /\ Len(results) = 3

\* C14: a call of find_similar leaves query_vector, embedding_matrix and
\* corpus_texts (and top_n) as they were, whether it returns or raises.
C14_InputsUnchanged ==
    [][ /\ query_vec' = query_vec
        /\ embeddings' = embeddings
        /\ corpus' = corpus
        /\ top_n' = top_n ]_vars

\* C14 witness: calls have ended by raising after the ranking was computed.
C14_Witness ==
    /\ pc = "raised" /\ error = "IndexError" /\ N = 3
    /\ embeddings[1] = <<2, 2>>
    /\ query_vec = <<2, 2>>

\* the outcome of thread t's call, once it has ended
OutcomeOf(t) == [pc |-> calls[t].pc, error |-> calls[t].error, results |-> calls[t].results]

\* C15: under any interleaving of find_similar calls that share the
\* embedding matrix and the corpus, each call that has ended has an outcome
\* it has when run alone on its arguments, and no step of any call changes
\* the shared matrix or corpus.
C15_ConcurrentCallsIndependent ==
    /\ [](\A t \in Threads :
            calls[t].pc \in {"returned", "raised"} =>
                OutcomeOf(t) \in FindSimilarOutcomes(calls[t].query_vec, embeddings, corpus,
                                                     calls[t].top_n))
    /\ [][embeddings' = embeddings /\ corpus' = corpus]_vars

\* C15 witness: the first thread has returned two pairs while the second,
\* with another query, is between its statements; the matrix has a row that
\* is not in lowest terms.
C15_Witness ==
    /\ Len(embeddings) = 2
    /\ embeddings[1] = <<2, 2>>
    /\ calls["t1"].pc = "returned"
    /\ Len(calls["t1"].results) = 2
    /\ calls["t2"].pc = "line7"
    /\ calls["t2"].query_vec # calls["t1"].query_vec

\* the four statuses of an action item
FourStatuses == {"pending", "in_progress", "completed", "cancelled"}

\* action item id exists and belongs to a meeting of user u
OwnsItem(u, id) ==
    /\ id \in DOMAIN action_item_tbl
    /\ meeting_tbl[action_item_tbl[id].meeting_id].user_id = u

\* meeting id exists and belongs to user u
OwnsMeeting(u, id) ==
    /\ id \in DOMAIN meeting_tbl
    /\ meeting_tbl[id].user_id = u

\* C16: after any sequence of action-item creations and status-update
\* requests every stored status is one of pending, in_progress, completed,
\* cancelled; an update request that carries any other status leaves every
\* item's status and updated_at as they were, and is answered with 400 (the
\* request being one for an item of the logged-in user, which is found).
C16_StatusStaysValid ==
    /\ [](\A id \in DOMAIN action_item_tbl : action_item_tbl[id].status \in FourStatuses)
    /\ [][ ( /\ response' # response
             /\ response'.route = "update_action_item_status"
             /\ response'.body \notin FourStatuses )
           => ( /\ action_item_tbl' = action_item_tbl
                /\ OwnsItem(response'.user, response'.target) => response'.code = 400 ) ]_vars

\* C16 witness: an item that was moved to completed has then been sent the
\* status "done" by its owner, and the answer was 400.
C16_Witness ==
    /\ response.route = "update_action_item_status"
    /\ response.body = "done"
    /\ response.code = 400
    /\ OwnsItem(response.user, response.target)
    /\ action_item_tbl[response.target].status = "completed"

\* C17: update_action_item_status, meeting_detail and create_meet_link act
\* only on a meeting or action item of the logged-in user: a request naming
\* any other id is answered with 404 and changes no row, a row that changes
\* belongs to the requesting user, and a meeting shown is the user's own.
C17_OnlyOwnData ==
    [][ /\ ( /\ response' # response
             /\ \/ /\ response'.route = "update_action_item_status"
                   /\ ~OwnsItem(response'.user, response'.target)
                \/ /\ response'.route \in {"meeting_detail", "create_meet_link"}
                   /\ ~OwnsMeeting(response'.user, response'.target) )
           => ( /\ response'.code = 404
                /\ response'.meeting = NoMeeting
                /\ meeting_tbl' = meeting_tbl
                /\ action_item_tbl' = action_item_tbl )
        /\ \A id \in DOMAIN action_item_tbl :
              action_item_tbl'[id] # action_item_tbl[id] => OwnsItem(response'.user, id)
        /\ \A m \in DOMAIN meeting_tbl :
              meeting_tbl'[m] # meeting_tbl[m] => OwnsMeeting(response'.user, m)
        /\ response'.meeting # NoMeeting => response'.meeting.user_id = response'.user ]_vars

\* C17 witness: bob has asked to complete an item of a meeting of alice and
\* got 404, the item being still pending.
C17_Witness ==
    /\ response.route = "update_action_item_status"
    /\ response.user = "bob"
    /\ response.body = "completed"
    /\ response.code = 404
    /\ response.target \in DOMAIN action_item_tbl
    /\ meeting_tbl[action_item_tbl[response.target].meeting_id].user_id = "alice"
    /\ action_item_tbl[response.target].status = "pending"

\* C18: after any sequence of registration requests, interleaved between the
\* existence checks and the commit or not, no two stored users share a
\* username and no two share an email; a registration whose username or
\* email is already stored adds no user.
C18_UsersStayUnique ==
    /\ [](\A i, j \in DOMAIN user_tbl :
            i # j => ( /\ user_tbl[i].username # user_tbl[j].username
                       /\ user_tbl[i].email # user_tbl[j].email ))
    /\ [][ user_tbl' # user_tbl =>
             \E row \in [username : Usernames, email : Emails] :
                /\ user_tbl' = Append(user_tbl, row)
                /\ \A i \in DOMAIN user_tbl :
                      user_tbl[i].username # row.username /\ user_tbl[i].email # row.email ]_vars

\* C18 witness: two requests for the username ann both passed the existence
\* checks; one was stored and the other failed at its commit.
C18_Witness ==
    /\ reg["r1"].outcome = "registered"
    /\ reg["r2"].outcome = "failed"
    /\ reg["r1"].username = "ann"
    /\ reg["r2"].username = "ann"
    /\ reg["r1"].email # reg["r2"].email
    /\ Len(user_tbl) = 1

\* the action items stored for meeting id, in the order they were stored
ItemsOfMeeting(id) == SelectSeq(action_item_tbl, LAMBDA it : it.meeting_id = id)

\* C19: after an upload request that stored its meeting, the AI results are
\* stored all or nothing: either the meeting has its summary and one action
\* item per extracted item, or (when the AI processing raised) it has no
\* summary and no action item; the meeting record is stored in both cases.
C19_AIResultsAllOrNothing ==
    (up.outcome \in {"processed", "ai_error"}) =>
        /\ up.meeting_id \in DOMAIN meeting_tbl
        /\ meeting_tbl[up.meeting_id].transcript # ""
        /\ up.outcome = "processed" =>
              /\ meeting_tbl[up.meeting_id].summary = "summary"
              /\ Len(ItemsOfMeeting(up.meeting_id)) = Len(up.items_data)
              /\ \A k \in 1 .. Len(up.items_data) :
                    ItemsOfMeeting(up.meeting_id)[k].due_date = up.items_data[k]
        /\ up.outcome = "ai_error" =>
              /\ meeting_tbl[up.meeting_id].summary = ""
              /\ ItemsOfMeeting(up.meeting_id) = <<>>

\* C19 witness: the second of two extracted items made the processing raise
\* after the first had been added; the meeting, the second stored, has no
\* summary and no item, and the first meeting has its two.
C19_Witness ==
    /\ up.outcome = "ai_error"
    /\ up.meeting_id = 2
    /\ Len(up.items_data) = 2
    /\ fromisoformat_ok(up.items_data[1])
    /\ ~fromisoformat_ok(up.items_data[2])
    /\ Len(meeting_tbl) = 2
    /\ meeting_tbl[2].summary = ""
    /\ Len(ItemsOfMeeting(1)) = 2
    /\ ItemsOfMeeting(2) = <<>>

\* C20: when an upload request that saved a file into the upload folder has
\* ended, on every outcome, that file is no longer in the upload folder.
C20_UploadedFileRemoved ==
    (up.saved_file # NoFile) => (up.saved_file \notin upload_folder)

\* C21: under every interleaving of two upload requests, no request is ended
\* by an exception, and the transcript stored for a request's meeting is the
\* content of the file that request uploaded.
C21_ConcurrentUploadsIndependent ==
    \A r \in UpReqs :
        /\ uploads[r].pc # "raised"
        /\ uploads[r].meeting_id # 0 =>
              meeting_tbl[uploads[r].meeting_id].transcript = uploads[r].content

\* C22: every meeting that a meeting_status answer lists as being processed
\* is being handled by process_meeting_link at that moment; a meeting whose
\* handling has ended is not listed.
C22_ListedOnlyWhileProcessed ==
    [][ (response' # response /\ response'.route = "meeting_status") =>
           \A id \in response'.listed :
              zoom_req.pc = "running" /\ zoom_req.meeting_id = id ]_vars

\* C23: every due date _parse_due_date returns is None or a date of the
\* calendar, which datetime.fromisoformat accepts.
C23_DueDateValid ==
    (due.pc = "returned") => (due.result = NoDate \/ fromisoformat_ok(due.result))

\* C24: a stop_recording call returns a recording path only if, before it,
\* the most recent start_recording had returned True and neither
\* stop_recording nor cleanup had succeeded since; otherwise it returns None.
C24_StopReturnsPathOnlyIfStarted ==
    \A h \in Handlers :
        (zcall[h].op = "stop_recording" /\ zcall[h].ret # "None") => zcall[h].was_started

\* the capital of a letter of the exit words
UpperOf(c) ==
    CASE c = "e" -> "E" [] c = "x" -> "X" [] c = "i" -> "I" [] c = "t" -> "T"
      [] c = "q" -> "Q" [] c = "u" -> "U" [] c = "b" -> "B" [] c = "y" -> "Y"
      [] OTHER -> c

\* the line is one of the exit words up to the case of its letters
IsExitLine(query) ==
    \E w \in ExitWords :
        /\ Len(query) = Len(w)
        /\ \A i \in 1 .. Len(w) : query[i] = w[i] \/ query[i] = UpperOf(w[i])

\* the lookup is one on row-aligned questions and embeddings that returned
\* the top five (all, of fewer) and whose first entry was read
GoodLookup(l, method) ==
    /\ l.method = method
    /\ l.rows = Len(chat.processed_questions)
    /\ Len(l.results) = Min(5, l.rows)
    /\ l.results # <<>>
    /\ l.top = l.results[1]
    /\ \A k \in 1 .. Len(l.results) : ScoreGeq(l.top.score, l.results[k].score)

\* C25: the loop has ended only on a line that is exit, quit or bye up to
\* case, and then without a lookup; a line that is none of them never ends
\* it: one lookup per method is made for it, tfidf then bert, each with the
\* default top_n on as many rows as questions and with its first entry read,
\* and then the next line is asked for. No lookup ends the program.
C25_ChatLoop ==
    /\ chat.pc \in {"input", "tfidf", "bert", "ended"}
    /\ chat.pc = "ended" => (IsExitLine(chat.query) /\ chat.lookups = <<>>)
    /\ chat.pc = "tfidf" => (~IsExitLine(chat.query) /\ chat.lookups = <<>>)
    /\ chat.pc = "bert" =>
          /\ ~IsExitLine(chat.query)
          /\ Len(chat.lookups) = 1
          /\ GoodLookup(chat.lookups[1], "tfidf")
    /\ chat.pc = "input" =>
          \/ chat.lookups = <<>> /\ chat.query = <<>>
          \/ /\ ~IsExitLine(chat.query)
             /\ Len(chat.lookups) = 2
             /\ GoodLookup(chat.lookups[1], "tfidf")
             /\ GoodLookup(chat.lookups[2], "bert")

\* C25 witness: the line "exits" has had its two lookups on two questions and
\* the loop is asking for the next line.
C25_Witness ==
    /\ chat.pc = "input"
    /\ chat.query = <<"e", "x", "i", "t", "s">>
    /\ Len(chat.processed_questions) = 2
    /\ Len(chat.lookups) = 2
    /\ Len(chat.lookups[2].results) = 2

====
